---- MODULE Spec2Model ----
(***************************************************************************)
(* A state-machine model of the Network training engine (network.py) and   *)
(* of the Dense layer (dense.py).                                          *)
(*                                                                         *)
(* Numbers are fixed point: a weight is an integer number of 10^-6 units,  *)
(* a gradient and a learning rate are integer numbers of 10^-3 units, so   *)
(* that lr * dw is again a number of 10^-6 units.  The results of the      *)
(* external numeric kernels (activations, losses, dot products) are drawn  *)
(* from small sets; what the Network and the Dense layer do with them      *)
(* (batch averaging, adding the regularizer term, the descent step, the    *)
(* perturbation of the gradient check) is computed as the code does.       *)
(*                                                                         *)
(* self[0] is the input placeholder; net[i] models self[i] for i >= 1, so  *)
(* len(self) = Len(net) + 1.                                               *)
(*                                                                         *)
(* An operation of the Network surface runs from pc = "idle" through its   *)
(* control positions and returns to "idle".  Nothing in network.py catches *)
(* an exception: one raised by an external kernel ends the run at          *)
(* pc = "exc", with the state the operation left behind.  Layers are added *)
(* before the first descent step (network-assembly time), compile, fit,    *)
(* update_weights, predict and the gradient checks are called in any       *)
(* order.  The assert of Dense.backward_step compares the regularizer's    *)
(* param with self.w, which it aliases, and never fails.                   *)
(***************************************************************************)
EXTENDS Integers, Sequences, FiniteSets, TLC

VARIABLES
    net,        \* self[1:], a sequence of Dense layers (g, regularizers, w, b, dw, db)
    softmax,    \* self.softmax: "None" or "True"
    lr,         \* self.lr (10^-3 units); meaningful once compiled
    compiled,   \* TRUE once compile has bound self.lr and self.loss_fct
    epoch,      \* self.epoch
    pc,         \* the control position of the running operation
    fit,        \* the locals of fit
    st,         \* the locals of train_on_batch / backpropagation / update_weights
    gc,         \* the locals of gradient_checks / complete_gradient_check / gradient_check
    bp_log,     \* history: the dw/db writes of the current training step, in order
    snap,       \* history: the layers as they were when the running gradient check began
    used,       \* history: the number of descent steps taken so far
    built       \* history: len(self) - 1 when compile last ran, 0 before

vars == <<net, softmax, lr, compiled, epoch, pc, fit, st, gc, bp_log, snap,
          used, built>>

-----------------------------------------------------------------------------
(* Bounds of the model *)

MaxLayers == 2      \* Dense layers added to one network
MaxEpochs == 3      \* the largest epochs argument of fit
MaxSteps == 2       \* descent steps (minibatches, update_weights calls) in a run
NumW == 1           \* elements of every weight matrix

(* Program constants *)

DecayNum == 993             \* self.lr *= 0.993
DecayDen == 1000
BatchSizeUsed == 1000       \* misc.minibatches(x, y, batch_size=1000)
CheckBatch == 1             \* if gradients_to_check_each_epoch and m == 1
FitChecks == 3              \* self.gradient_checks(..., checks=3)
Eps == 1                    \* eps = 10**(-6), one weight unit

(* Inputs *)

LrValues == {100, 1000}
TrainSizes == {500, 1500}
BatchSizeArgs == {128, 1000}
LayerKinds == {<<"sigmoid", FALSE, FALSE>>,         \* (activation, kernel regularizer
              <<"softmax", TRUE, TRUE>>}           \*  bound, bias regularizer bound)
ErrValues == {1000, 2000}
InitWValues == {4000}
ChecksArgs == {2}

-----------------------------------------------------------------------------
(* Helpers *)

n == Len(net)

Zeros == [i \in 1..NumW |-> 0]

\* Dense.__init__ and Dense.prepare_params: a layer with its parameters bound
NewDense(g, kreg, breg, w0) ==
    [g |-> g, kernel_regularizer |-> kreg, bias_regularizer |-> breg,
     w |-> [i \in 1..NumW |-> w0], dw |-> Zeros, b |-> 0, db |-> 0]

\* the frames of an operation that is not running
NoFit == [epochs |-> 0, batch_size |-> 0, check |-> FALSE, ntrain |-> 0,
          e |-> 0, m |-> 0, mbs |-> <<>>, requested |-> 0,
          grad_printout |-> FALSE, epoch0 |-> 0, lr0 |-> 0, passes |-> 0,
          gcs_runs |-> 0, steps |-> 0, updates |-> 0]

NoStep == [caller |-> "none", bsz |-> 0, l |-> 0, error_prev |-> 0, error |-> 0,
           u |-> 0, formula |-> "none"]

NoGc == [caller |-> "none", checks |-> 0, check |-> 0, layer_id |-> 0,
         weight_idx |-> 0, w_original |-> 0, sign |-> 0]

\* a variant: for epoch in range(1, epochs + 1)
EpochRangeInclusive(epochs) == 1..epochs

\* for epoch in range(1, epochs)
EpochRange(epochs) == 1..(epochs - 1)

\* a variant: self.lr /= 0.993
DecayDivides(rate) == (rate * DecayDen) \div DecayNum

\* self.lr *= 0.993
Decay(rate) == (rate * DecayNum) \div DecayDen

\* the batch size fit hands to misc.minibatches
RequestedBatchSize(batch_size) == BatchSizeUsed

\* misc.minibatches: the sizes of the consecutive slices of ntrain examples
Minibatches(ntrain, size) ==
    LET count == (ntrain + size - 1) \div size
    IN  [i \in 1..count |-> IF i * size <= ntrain THEN size ELSE ntrain - (i - 1) * size]

\* if gradients_to_check_each_epoch and m == 1
ChecksNow(check, m) == check /\ m = CheckBatch

\* variants: for l in range(len(self)-1, 0, -1), for l in range(len(self)-2, 1, -1)
BackpropFirstFromLast(len) == len - 1
BackpropStopsEarly(l) == l > 1

\* for l in range(len(self)-2, 0, -1): the first l, and whether the loop goes on
BackpropFirst(len) == len - 2
BackpropContinues(l) == l > 0

\* 1 / batch_size * x
Averaged(x, batch_size) == x \div batch_size

\* the regularizer contract: derivative() of the bound parameter (an L2 penalty)
KernelRegDerivative(layer) == layer.w
BiasRegDerivative(layer) == layer.b

\* the kernel results np.dot(error, a_next.T) and np.sum(error, axis=1) for an
\* error signal of magnitude err (unit activations upstream)
Dot(err) == [i \in 1..NumW |-> err]
Sum(err) == err

\* Dense.backward_step: error = np.dot(w_prev.T, error_prev) * derivative, for
\* downstream weights and an activation derivative of unit gain
HiddenError(error_prev) == error_prev

\* Dense.backward_step: dw, db of a layer whose error signal is err
BackwardDw(layer, err, batch_size) ==
    [i \in 1..NumW |->
        Averaged(Dot(err)[i], batch_size)
        + (IF layer.kernel_regularizer
           THEN Averaged(KernelRegDerivative(layer)[i], batch_size) ELSE 0)]
BackwardDb(layer, err, batch_size) ==
    Averaged(Sum(err), batch_size)
    + (IF layer.bias_regularizer
       THEN Averaged(BiasRegDerivative(layer), batch_size) ELSE 0)

\* Network._backprop_last_layer: dw, db of the final layer
LastDw(layer, err, batch_size) == [i \in 1..NumW |-> Averaged(Dot(err)[i], batch_size)]
LastDb(layer, err, batch_size) == Averaged(Sum(err), batch_size)

\* Network._backprop_last_layer: the formula of deltaL
DeltaFormula(layer) == IF layer.g = "softmax" THEN "einsum" ELSE "elementwise"

\* layer.w -= self.lr * layer.dw
Descent(p, rate, grad) == p - rate * grad

\* a variant: a gradient_check that leaves the last perturbation in place
LeftPerturbed(w_original, sign) == w_original + sign * Eps

\* gradient_check: the element while the loss is evaluated, and after the loop
Perturbed(w_original, sign) == w_original + sign * Eps
Restored(w_original, sign) == w_original

-----------------------------------------------------------------------------
(* Construction *)

Init ==
    /\ net = <<>>
    /\ softmax = "None"
    /\ lr = 0
    /\ compiled = FALSE
    /\ epoch = 0
    /\ pc = "idle"
    /\ fit = NoFit
    /\ st = NoStep
    /\ gc = NoGc
    /\ bp_log = <<>>
    /\ snap = <<>>
    /\ used = 0
    /\ built = 0

\* Network.add, of a Dense layer whose parameters are prepared
Add(g, kreg, breg, w0) ==
    /\ pc = "idle"
    /\ n < MaxLayers
    /\ used = 0
    /\ net' = Append(net, NewDense(g, kreg, breg, w0))
    /\ UNCHANGED <<softmax, lr, compiled, epoch, pc, fit, st, gc, bp_log, snap,
                   used, built>>

\* Network.compile (self[-1] is a Dense layer)
Compile(rate) ==
    /\ pc = "idle"
    /\ n >= 1
    /\ lr' = rate
    /\ compiled' = TRUE
    /\ softmax' = IF net[n].g = "softmax" THEN "True" ELSE softmax
    /\ built' = n
    /\ UNCHANGED <<net, epoch, pc, fit, st, gc, bp_log, snap, used>>

-----------------------------------------------------------------------------
(* Network.fit *)

\* fit, lines 59-73: the arguments are bound; grad_printout is bound here only
\* when no gradient check was asked for
Fit(epochs, ntrain, batch_size, check) ==
    /\ pc = "idle"
    /\ compiled
    /\ n >= 1
    /\ used + (epochs - 1) * Len(Minibatches(ntrain, RequestedBatchSize(batch_size)))
          <= MaxSteps
    /\ fit' = [NoFit EXCEPT !.epochs = epochs, !.batch_size = batch_size,
                            !.check = check, !.ntrain = ntrain, !.e = 1,
                            !.grad_printout = ~check, !.epoch0 = epoch, !.lr0 = lr]
    /\ pc' = "fit_loop"
    /\ UNCHANGED <<net, softmax, lr, compiled, epoch, st, gc, bp_log, snap, used, built>>

\* the head of the epoch loop, lines 75-80: the rate decays, the minibatches are cut
FitEpochBegin ==
    /\ pc = "fit_loop"
    /\ fit.e \in EpochRange(fit.epochs)
    /\ lr' = Decay(lr)
    /\ LET size == RequestedBatchSize(fit.batch_size)
       IN  fit' = [fit EXCEPT !.requested = size,
                              !.mbs = Minibatches(fit.ntrain, size),
                              !.m = 0, !.gcs_runs = 0]
    /\ pc' = "train"
    /\ UNCHANGED <<net, softmax, compiled, epoch, st, gc, bp_log, snap, used, built>>

\* the epoch loop is exhausted: fit returns
FitLoopEnd ==
    /\ pc = "fit_loop"
    /\ fit.e \notin EpochRange(fit.epochs)
    /\ pc' = "fit_ret"
    /\ UNCHANGED <<net, softmax, lr, compiled, epoch, fit, st, gc, bp_log, snap, used, built>>

\* train_on_batch, line 121: the forward pass over the minibatch
TrainForward ==
    /\ pc = "train"
    /\ st' = [NoStep EXCEPT !.caller = "fit", !.bsz = fit.mbs[fit.m + 1]]
    /\ fit' = [fit EXCEPT !.steps = @ + 1]
    /\ bp_log' = <<>>
    /\ used' = used + 1
    /\ pc' = "bp_last"
    /\ UNCHANGED <<net, softmax, lr, compiled, epoch, gc, snap, built>>

\* _backprop_last_layer: deltaL, then dw and db of the final layer
BackpropLast(err) ==
    /\ pc = "bp_last"
    /\ net' = [net EXCEPT ![n].dw = LastDw(net[n], err, st.bsz),
                          ![n].db = LastDb(net[n], err, st.bsz)]
    /\ bp_log' = Append(bp_log, [layer |-> n, a_up |-> n - 1, w_down |-> 0,
                                 err_down |-> 0, err |-> err])
    /\ st' = [st EXCEPT !.formula = DeltaFormula(net[n]), !.error_prev = n,
                        !.error = err, !.l = BackpropFirst(n + 1)]
    /\ pc' = "bp_loop"
    /\ UNCHANGED <<softmax, lr, compiled, epoch, fit, gc, snap, used, built>>

\* one pass of the loop of backpropagation: self[l].backward_step(a_next, w_prev, error_prev)
BackwardStep ==
    /\ pc = "bp_loop"
    /\ BackpropContinues(st.l)
    /\ LET l == st.l
           err == HiddenError(st.error)
       IN  /\ net' = [net EXCEPT ![l].dw = BackwardDw(net[l], err, st.bsz),
                                 ![l].db = BackwardDb(net[l], err, st.bsz)]
           /\ bp_log' = Append(bp_log, [layer |-> l, a_up |-> l - 1, w_down |-> l + 1,
                                        err_down |-> st.error_prev, err |-> err])
           /\ st' = [st EXCEPT !.error_prev = l, !.error = err, !.l = l - 1]
    /\ UNCHANGED <<softmax, lr, compiled, epoch, pc, fit, gc, snap, used, built>>

\* the loop of backpropagation is exhausted: train_on_batch returns
BackpropDone ==
    /\ pc = "bp_loop"
    /\ ~BackpropContinues(st.l)
    /\ pc' = "loss"
    /\ UNCHANGED <<net, softmax, lr, compiled, epoch, fit, st, gc, bp_log, snap, used, built>>

\* lines 85-89: the batch loss is recorded; the gradient check starts on the
\* designated minibatch, else the weights are updated
GetLoss ==
    /\ pc = "loss"
    /\ IF ChecksNow(fit.check, fit.m)
       THEN /\ pc' = "gcs"
            /\ gc' = [NoGc EXCEPT !.caller = "fit", !.checks = FitChecks]
            /\ snap' = net
            /\ st' = st
       ELSE /\ pc' = "update"
            /\ st' = [st EXCEPT !.u = 1]
            /\ UNCHANGED <<gc, snap>>
    /\ UNCHANGED <<net, softmax, lr, compiled, epoch, fit, bp_log, used, built>>

\* one pass of the loop of update_weights
UpdateLayer ==
    /\ pc = "update"
    /\ LET u == st.u
       IN  /\ net' = [net EXCEPT
                        ![u].w = [i \in 1..NumW |-> Descent(net[u].w[i], lr, net[u].dw[i])],
                        ![u].b = Descent(net[u].b, lr, net[u].db)]
           /\ IF u < n
              THEN /\ st' = [st EXCEPT !.u = u + 1]
                   /\ UNCHANGED <<pc, fit>>
              ELSE IF st.caller = "fit"
              THEN /\ st' = NoStep
                   /\ fit' = [fit EXCEPT !.m = @ + 1, !.updates = @ + 1]
                   /\ pc' = IF fit.m + 1 < Len(fit.mbs) THEN "train" ELSE "epoch_end"
              ELSE /\ st' = NoStep
                   /\ pc' = "ret"
                   /\ fit' = fit
    /\ bp_log' = IF st.u < n THEN bp_log ELSE <<>>
    /\ snap' = <<>>
    /\ UNCHANGED <<softmax, lr, compiled, epoch, gc, used, built>>

\* lines 95-110: the epoch is evaluated and reported, the epoch counter advances;
\* the report reads grad_printout, which is unbound (NameError) when a gradient
\* check was asked for and none has run
EpochEnd ==
    /\ pc = "epoch_end"
    /\ IF fit.grad_printout
       THEN /\ epoch' = epoch + 1
            /\ fit' = [fit EXCEPT !.e = @ + 1, !.passes = @ + 1]
            /\ pc' = "fit_loop"
       ELSE /\ pc' = "exc"
            /\ fit' = NoFit
            /\ epoch' = epoch
    /\ UNCHANGED <<net, softmax, lr, compiled, st, gc, bp_log, snap, used, built>>

-----------------------------------------------------------------------------
(* Gradient checking *)

\* gradient_check, lines 246-251: the element is saved and perturbed by +eps
GradientCheckEnter(layer_id, weight_idx) ==
    LET w_original == net[layer_id].w[weight_idx]
    IN  /\ gc' = [gc EXCEPT !.layer_id = layer_id, !.weight_idx = weight_idx,
                            !.w_original = w_original, !.sign = 1]
        /\ net' = [net EXCEPT ![layer_id].w[weight_idx] = Perturbed(w_original, 1)]
        /\ pc' = "gc_loss"

\* one pass of the loop of gradient_checks: a random element of a random layer
GradientChecksPick(layer_id, weight_idx) ==
    /\ pc = "gcs"
    /\ gc.check < gc.checks
    /\ layer_id \in 1..n
    /\ GradientCheckEnter(layer_id, weight_idx)
    /\ UNCHANGED <<softmax, lr, compiled, epoch, fit, st, bp_log, snap, used, built>>

\* one pass of the loops of complete_gradient_check: the next element in order
CompleteCheckPick ==
    /\ pc = "cgc"
    /\ gc.layer_id <= n
    /\ GradientCheckEnter(gc.layer_id, gc.weight_idx)
    /\ UNCHANGED <<softmax, lr, compiled, epoch, fit, st, bp_log, snap, used, built>>

\* gradient_check, lines 249-258: get_loss has returned; after the +eps
\* evaluation the element is perturbed by -eps, after the -eps evaluation it is
\* restored and gradient_check returns
GradientCheckLoss ==
    /\ pc = "gc_loss"
    /\ LET layer_id == gc.layer_id
           weight_idx == gc.weight_idx
       IN  IF gc.sign = 1
           THEN /\ net' = [net EXCEPT ![layer_id].w[weight_idx] =
                                          Perturbed(gc.w_original, -1)]
                /\ gc' = [gc EXCEPT !.sign = -1]
                /\ pc' = pc
           ELSE /\ net' = [net EXCEPT ![layer_id].w[weight_idx] =
                                          Restored(gc.w_original, gc.sign)]
                /\ gc' = [gc EXCEPT !.sign = 0]
                /\ pc' = "gc_ret"
    /\ UNCHANGED <<softmax, lr, compiled, epoch, fit, st, bp_log, snap, used, built>>

\* gradient_checks, lines 232-233: the estimate and dw[weight_idx] are recorded
GradientChecksRecord ==
    /\ pc = "gc_ret"
    /\ gc.caller \in {"fit", "gradient_checks"}
    /\ gc' = [gc EXCEPT !.check = @ + 1]
    /\ pc' = "gcs"
    /\ UNCHANGED <<net, softmax, lr, compiled, epoch, fit, st, bp_log, snap, used, built>>

\* gradient_checks returns its goodness; in fit grad_printout is bound and
\* update_weights follows
GradientChecksDone ==
    /\ pc = "gcs"
    /\ gc.check >= gc.checks
    /\ IF gc.caller = "fit"
       THEN /\ fit' = [fit EXCEPT !.grad_printout = TRUE, !.gcs_runs = @ + 1]
            /\ st' = [st EXCEPT !.u = 1]
            /\ gc' = NoGc
            /\ pc' = "update"
       ELSE /\ pc' = "ret"
            /\ UNCHANGED <<fit, st, gc>>
    /\ UNCHANGED <<net, softmax, lr, compiled, epoch, bp_log, snap, used, built>>

\* complete_gradient_check, lines 199-208: the estimate is stored; after the
\* last element of a layer the estimates are compared with the layer's dw
CompleteCheckRecord ==
    /\ pc = "gc_ret"
    /\ gc.caller = "complete"
    /\ IF gc.weight_idx < NumW
       THEN gc' = [gc EXCEPT !.weight_idx = @ + 1]
       ELSE gc' = [gc EXCEPT !.weight_idx = 1, !.layer_id = @ + 1]
    /\ pc' = "cgc"
    /\ UNCHANGED <<net, softmax, lr, compiled, epoch, fit, st, bp_log, snap, used, built>>

\* complete_gradient_check has visited every layer
CompleteCheckDone ==
    /\ pc = "cgc"
    /\ gc.layer_id > n
    /\ pc' = "ret"
    /\ UNCHANGED <<net, softmax, lr, compiled, epoch, fit, st, gc, bp_log, snap, used, built>>

-----------------------------------------------------------------------------
(* The other operations of the Network surface *)

\* a direct call of gradient_checks(x, ytrue, checks)
GradientChecks(checks) ==
    /\ pc = "idle"
    /\ compiled
    /\ n >= 1
    /\ gc' = [NoGc EXCEPT !.caller = "gradient_checks", !.checks = checks]
    /\ snap' = net
    /\ pc' = "gcs"
    /\ UNCHANGED <<net, softmax, lr, compiled, epoch, fit, st, bp_log, used, built>>

\* a direct call of complete_gradient_check(x, y)
CompleteGradientCheck ==
    /\ pc = "idle"
    /\ compiled
    /\ n >= 1
    /\ gc' = [NoGc EXCEPT !.caller = "complete", !.layer_id = 1, !.weight_idx = 1]
    /\ snap' = net
    /\ pc' = "cgc"
    /\ UNCHANGED <<net, softmax, lr, compiled, epoch, fit, st, bp_log, used, built>>

\* a direct call of update_weights
UpdateWeights ==
    /\ pc = "idle"
    /\ compiled
    /\ n >= 1
    /\ used < MaxSteps
    /\ used' = used + 1
    /\ st' = [NoStep EXCEPT !.caller = "call", !.u = 1]
    /\ pc' = "update"
    /\ UNCHANGED <<net, softmax, lr, compiled, epoch, fit, gc, bp_log, snap, built>>

\* predict(x), or the network called as a function: forward_step
Predict ==
    /\ pc = "idle"
    /\ n >= 1
    /\ pc' = "fwd"
    /\ UNCHANGED <<net, softmax, lr, compiled, epoch, fit, st, gc, bp_log, snap, used, built>>

\* forward_step returns the prediction
PredictReturns ==
    /\ pc = "fwd"
    /\ pc' = "ret"
    /\ UNCHANGED <<net, softmax, lr, compiled, epoch, fit, st, gc, bp_log, snap, used, built>>

\* an activation or loss kernel raises inside forward_step, get_loss or the
\* backward pass; nothing
\* in the Network catches it, so the exception leaves the running operation
\* with the state as it is; pc = "exc" is where the caller sees it, the locals
\* of fit gone, gc and snap telling which element a gradient_check was at
Raise ==
    /\ \/ pc \in {"train", "bp_last", "loss", "gc_loss", "epoch_end", "fwd"}
       \/ (pc = "bp_loop" /\ BackpropContinues(st.l))
    /\ pc' = "exc"
    /\ fit' = NoFit
    /\ st' = NoStep
    /\ gc' = [gc EXCEPT !.caller = "none", !.checks = 0, !.check = 0]
    /\ bp_log' = <<>>
    /\ UNCHANGED <<net, softmax, lr, compiled, epoch, snap, used, built>>

\* the running operation has returned: its locals are gone
Return ==
    /\ pc \in {"fit_ret", "ret"}
    /\ pc' = "idle"
    /\ fit' = NoFit
    /\ st' = NoStep
    /\ gc' = NoGc
    /\ snap' = <<>>
    /\ UNCHANGED <<net, softmax, lr, compiled, epoch, bp_log, used, built>>

-----------------------------------------------------------------------------

Build ==
    \/ \E kind \in LayerKinds, w0 \in InitWValues :
          Add(kind[1], kind[2], kind[3], w0)
    \/ \E rate \in LrValues : Compile(rate)

Train ==
    \/ \E epochs \in 1..MaxEpochs, ntrain \in TrainSizes,
          batch_size \in BatchSizeArgs, check \in BOOLEAN :
          Fit(epochs, ntrain, batch_size, check)
    \/ FitEpochBegin
    \/ FitLoopEnd
    \/ TrainForward
    \/ \E err \in ErrValues : BackpropLast(err)
    \/ BackwardStep
    \/ BackpropDone
    \/ GetLoss
    \/ UpdateLayer
    \/ EpochEnd

Check ==
    \/ \E layer_id \in 1..MaxLayers + 1, weight_idx \in 1..NumW :
          GradientChecksPick(layer_id, weight_idx)
    \/ CompleteCheckPick
    \/ GradientCheckLoss
    \/ GradientChecksRecord
    \/ GradientChecksDone
    \/ CompleteCheckRecord
    \/ CompleteCheckDone

Surface ==
    \/ \E checks \in ChecksArgs : GradientChecks(checks)
    \/ CompleteGradientCheck
    \/ UpdateWeights
    \/ Predict
    \/ PredictReturns
    \/ Raise
    \/ Return

Next == Build \/ Train \/ Check \/ Surface

Spec == Init /\ [][Next]_vars

-----------------------------------------------------------------------------
(* Properties *)

InFit == fit.epochs > 0

\* the layers whose dw/db the current training step has written
Written == {bp_log[k].layer : k \in 1..Len(bp_log)}

\* the value of rate * 0.993, truncated to the fixed-point grid
Times0993(rate) == (rate * DecayNum) \div DecayDen

RECURSIVE DecayedTimes(_, _)
DecayedTimes(rate, k) == IF k = 0 THEN rate ELSE DecayedTimes(Times0993(rate), k - 1)

\* C1: in a minibatch step of fit, whenever update_weights or the stochastic
\* gradient check reads a layer's dw/db, the backward pass of this same step has
\* written dw and db of every layer 1..len-1.
C1_GradientsWrittenBeforeRead ==
    (InFit /\ pc \in {"update", "gc_ret"}) => Written = 1..n

C1_Witness ==
    /\ InFit /\ pc = "update" /\ st.u = 2 /\ n = 2
    /\ fit.check /\ fit.grad_printout

\* C2: gradient_check leaves the perturbed element at its pre-call value on
\* every exit path, also when get_loss raises during the +eps or -eps evaluation.
C2_RestoredOnEveryExit ==
    (pc = "exc" /\ gc.sign # 0) =>
        net[gc.layer_id].w[gc.weight_idx] = snap[gc.layer_id].w[gc.weight_idx]

\* C3: after a gradient_check that returns normally, and so after
\* gradient_checks and complete_gradient_check, every w, b, dw and db is what it
\* was before the call; the update that follows the check in fit starts from
\* the weights and gradients the train step left.
C3_CheckLeavesParameters ==
    /\ pc = "gc_ret" => net = snap
    /\ (pc = "ret" /\ gc.caller \in {"gradient_checks", "complete"}) => net = snap
    /\ (InFit /\ pc = "update" /\ st.u = 1 /\ fit.gcs_runs > 0 /\ fit.m = CheckBatch)
          => net = snap

C3_Witness ==
    /\ InFit /\ pc = "update" /\ st.u = 1 /\ fit.gcs_runs > 0 /\ fit.m = CheckBatch
    /\ net = snap

\* C4: fit with epochs = 1 runs no iteration (no decay, no train step, no
\* update) and leaves the epoch counter alone; fit with epochs = N adds one to
\* the epoch counter per completed pass, N - 1 in total.
C4_EpochCounter ==
    /\ InFit => epoch = fit.epoch0 + fit.passes
    /\ pc = "fit_ret" =>
          /\ fit.passes = fit.epochs - 1
          /\ epoch = fit.epoch0 + fit.epochs - 1
          /\ fit.epochs = 1 => (lr = fit.lr0 /\ fit.steps = 0 /\ fit.updates = 0)

C4_Witness == pc = "fit_ret" /\ fit.epochs = 1 /\ epoch = fit.epoch0

\* C5: the size fit requests from the minibatch utility is the batch_size the
\* caller passed.
C5_RequestedIsConfigured ==
    (InFit /\ fit.requested # 0) => fit.requested = fit.batch_size

\* C6: with gradient checking enabled, exactly one stochastic gradient check
\* runs in every epoch, for any number of minibatches.
C6_OneCheckPerEpoch ==
    (InFit /\ fit.check /\ pc = "epoch_end") => fit.gcs_runs = 1

\* C7 as claimed: once compiled, the learning rate never increases and is never
\* reset by any operation; it changes only by the decay at the head of an epoch.
C7_EpochDecay ==
    /\ pc = "fit_loop" /\ pc' = "train"
    /\ lr' = Times0993(lr)
    /\ lr' <= lr

C7_NeverReset == [][compiled => (lr' = lr \/ C7_EpochDecay)]_vars

\* C7 as amended: apart from a further compile, which sets the rate to its
\* argument, the rate changes only by the decay at the head of an epoch, and
\* every step of the k-th epoch of a fit uses the rate the fit began with,
\* decayed k times.
C7_RateInEpoch ==
    (InFit /\ pc \in {"train", "bp_last", "bp_loop", "loss", "gcs", "gc_loss",
                      "gc_ret", "update", "epoch_end"})
        => lr = DecayedTimes(fit.lr0, fit.e)

C7_DecaysOncePerEpoch ==
    /\ []C7_RateInEpoch
    /\ [][compiled => \/ lr' = lr
                      \/ C7_EpochDecay
                      \/ \E rate \in LrValues : Compile(rate)]_vars

C7_Witness == InFit /\ pc = "update" /\ fit.e = 2 /\ lr = DecayedTimes(fit.lr0, 2) /\ lr < fit.lr0

C9_RegularizedGradients ==
    pc = "loss" =>
        \A k \in 1..Len(bp_log) :
            LET l == bp_log[k].layer
                e == bp_log[k].err
            IN  /\ net[l].kernel_regularizer =>
                      \A i \in 1..NumW :
                          net[l].dw[i] = Averaged(Dot(e)[i], st.bsz)
                                         + Averaged(KernelRegDerivative(net[l])[i], st.bsz)
                /\ net[l].bias_regularizer =>
                      net[l].db = Averaged(Sum(e), st.bsz)
                                  + Averaged(BiasRegDerivative(net[l]), st.bsz)

\* C10: after a sequence of add and compile calls ending in compile, the
\* softmax flag is true exactly when the final layer's activation is softmax,
\* and the next backward pass picks the formula the flag indicates.
C10_SoftmaxFlag ==
    (compiled /\ built = n) =>
        /\ (softmax = "True") <=> (net[n].g = "softmax")
        /\ pc = "bp_loop" => ((st.formula = "einsum") <=> (softmax = "True"))

====
